---- MODULE Spec2Model ----
(***************************************************************************)
(* Model of the sticker bot of src/main.py: the tokenizer (into_words),    *)
(* the keyword matcher (word_in_words, search_stickers), the two update    *)
(* handlers (on_query, on_message) behind the log_exceptions wrapper, and  *)
(* the check_stickers_integrity command.                                   *)
(*                                                                         *)
(* A Python str is a sequence of one-character strings.  config.py is not  *)
(* part of the sources: the Sticker Index it supplies (config.STICKERS) is *)
(* chosen in Init among the bounded indexes of Indexes, the credential     *)
(* (config.TELEGRAM_BOT_KEY) among set / not set, and a message template   *)
(* is kept by its name together with the arguments of its format() call.   *)
(***************************************************************************)
EXTENDS Integers, Sequences, FiniteSets, TLC

VARIABLES
    STICKERS,           \* config.STICKERS: sequence of [file_id, texts], in dict order
    TELEGRAM_BOT_KEY,   \* config.TELEGRAM_BOT_KEY is set (TRUE) or empty (FALSE)
    pc,                 \* dispatcher: "idle", "dispatched", "returned", "crashed"
    pending,            \* the (handler, update) the dispatcher is delivering
    calls,              \* transport calls made by the handler invocation
    log,                \* structlog records emitted by the handler invocation
    raised,             \* the exception the handler body ended with (None: it returned)
    caught,             \* an earlier handler invocation ended in a caught exception
    tok,                \* tokenizer run: [pc, s, words, again]
    mat,                \* matcher run: [pc, q1, q2, m1, m2]
    chk                 \* check_stickers_integrity run: [pc, i, sent, sticker_exceptions, report]

vars ==
    <<STICKERS, TELEGRAM_BOT_KEY, pc, pending, calls, log, raised, caught, tok, mat, chk>>

\* Python None; an optional value x that is present is <<x>>
None == <<>>

----------------------------------------------------------------------------
(* Bounds *)

\* Longest query / input string drawn.
MaxLen == 3
\* The Bot API constant of on_query (50 in main.py:96), scaled down together
\* with the index sizes so that indexes below, at and above the cap are all
\* enumerated with every outcome of random.shuffle.
MAX_RESULTS == 2
\* Largest index: one entry more than the cap.
MaxStickers == MAX_RESULTS + 1
\* Longest token sequence handed to the matcher.
MaxTokens == 2

Min(a, b) == IF a < b THEN a ELSE b

----------------------------------------------------------------------------
(* Strings *)

Alphabet == {"a", "B", " ", "-"}
Whitespace == {" ", "\t", "\n", "\r"}

RECURSIVE StringsOfLen(_)
StringsOfLen(n) ==
    IF n = 0 THEN {<<>>}
    ELSE {Append(s, c) : s \in StringsOfLen(n - 1), c \in Alphabet}

Strings == UNION {StringsOfLen(n) : n \in 0..MaxLen}

\* str.lower(), per character
LowerChar(c) == IF c = "A" THEN "a" ELSE IF c = "B" THEN "b" ELSE c
lower(q) == [i \in DOMAIN q |-> LowerChar(q[i])]

\* str.replace(sym, ' ')
replace(q, sym) == [i \in DOMAIN q |-> IF q[i] = sym THEN " " ELSE q[i]]

\* str.strip()
RECURSIVE lstrip(_)
lstrip(q) == IF q # <<>> /\ Head(q) \in Whitespace THEN lstrip(Tail(q)) ELSE q
RECURSIVE rstrip(_)
rstrip(q) ==
    IF q # <<>> /\ q[Len(q)] \in Whitespace THEN rstrip(SubSeq(q, 1, Len(q) - 1)) ELSE q
strip(q) == rstrip(lstrip(q))

\* str.split() without a separator: the maximal runs of non-whitespace
RECURSIVE splitFrom(_, _, _)
splitFrom(q, i, cur) ==
    IF i > Len(q) THEN (IF cur = <<>> THEN <<>> ELSE <<cur>>)
    ELSE IF q[i] \in Whitespace
         THEN (IF cur = <<>> THEN <<>> ELSE <<cur>>) \o splitFrom(q, i + 1, <<>>)
         ELSE splitFrom(q, i + 1, Append(cur, q[i]))
split(q) == splitFrom(q, 1, <<>>)

\* " ".join(words)
RECURSIVE join(_)
join(words) ==
    IF words = <<>> THEN <<>>
    ELSE IF Len(words) = 1 THEN words[1]
    ELSE words[1] \o <<" ">> \o join(Tail(words))

\* str.startswith
startswith(w, word) == Len(word) <= Len(w) /\ SubSeq(w, 1, Len(word)) = word

----------------------------------------------------------------------------
(* Tokenizer *)

syntax_marks == <<",", ".", "!", "?", "-">>

RECURSIVE replace_marks(_, _)
replace_marks(q, k) ==
    IF k > Len(syntax_marks) THEN q
    ELSE replace_marks(replace(q, syntax_marks[k]), k + 1)

\* into_words without the punctuation loop
into_words_keep_marks(q) ==
    LET words == split(strip(lower(q)))
        stripped == [i \in DOMAIN words |-> strip(words[i])]
    IN SelectSeq(stripped, LAMBDA w : w # <<>>)

into_words(q) ==
    LET q1 == replace_marks(q, 1)
        words == split(strip(lower(q1)))
        stripped == [i \in DOMAIN words |-> strip(words[i])]
    IN SelectSeq(stripped, LAMBDA w : w # <<>>)

----------------------------------------------------------------------------
(* Sticker Index (config.STICKERS) *)

\* file ids, in the order the dict holds them
IdPool == <<"s1", "s2", "s3", "s4", "s5", "s6">>
\* a file id no index holds
UnknownId == "s0"

\* tag lists an entry may carry: ["aB", "B"] and ["B-B", "Ba"]
TextsPool == { << <<"a", "B">>, <<"B">> >>, << <<"B", "-", "B">>, <<"B", "a">> >> }

IndexesOfLen(n) ==
    {[k \in 1..n |-> [file_id |-> IdPool[k], texts |-> t[k]]] : t \in [1..n -> TextsPool]}

Indexes == UNION {IndexesOfLen(n) : n \in 0..MaxStickers}

\* list(config.STICKERS.keys())
keys(index) == [k \in DOMAIN index |-> index[k].file_id]

Range(s) == {s[k] : k \in DOMAIN s}

\* file_id in config.STICKERS
in_stickers(file_id, index) == file_id \in Range(keys(index))

----------------------------------------------------------------------------
(* Keyword matcher *)

\* word_in_words with == in place of startswith
RECURSIVE word_in_words_exact(_, _)
word_in_words_exact(word, words) ==
    IF words = <<>> THEN FALSE
    ELSE IF Head(words) = word THEN TRUE
    ELSE word_in_words_exact(word, Tail(words))

RECURSIVE word_in_words(_, _)
word_in_words(word, words) ==
    IF words = <<>> THEN FALSE
    ELSE IF startswith(Head(words), word) THEN TRUE
    ELSE word_in_words(word, Tail(words))

\* any(...) in place of all(...)
matches_any(query_words, texts_words) ==
    \E k \in DOMAIN query_words : word_in_words(query_words[k], texts_words)

\* all([ word_in_words(w, texts_words) for w in query_words ])
matches(query_words, texts_words) ==
    \A k \in DOMAIN query_words : word_in_words(query_words[k], texts_words)

\* into_words(" ".join(texts).lower())
tokenized_texts(texts) == into_words(lower(join(texts)))

\* the loop of search_stickers over config.STICKERS.items(), from entry k on
RECURSIVE search_from(_, _, _)
search_from(query_words, index, k) ==
    IF k > Len(index) THEN <<>>
    ELSE (IF matches(query_words, tokenized_texts(index[k].texts))
          THEN <<index[k].file_id>> ELSE <<>>)
         \o search_from(query_words, index, k + 1)

search_stickers(query, index) == search_from(into_words(query), index, 1)

----------------------------------------------------------------------------
(* Random sample *)

\* the outcomes of random.shuffle(ids): every ordering of ids
Shuffles(ids) ==
    {p \in [1..Len(ids) -> Range(ids)] : \A a, b \in 1..Len(ids) : p[a] = p[b] => a = b}

\* ids[:n]
Take(ids, n) == SubSeq(ids, 1, Min(n, Len(ids)))

\* random_stickers, given the outcome of the shuffle
random_stickers(n, shuffled) == Take(shuffled, n)

----------------------------------------------------------------------------
(* Updates *)

User == <<1>>

\* an update carrying an inline query; from_user is None in a malformed one
QueryUpdates ==
    {[inline_query |-> <<[query |-> q, from_user |-> f]>>, message |-> None] :
        q \in Strings, f \in {None, User}}

\* an update carrying a message, with or without a sticker
MessageUpdates ==
    {[inline_query |-> None, message |-> <<[from_user |-> f, sticker |-> st]>>] :
        f \in {None, User},
        st \in {None} \cup {<<[file_id |-> id]>> : id \in Range(IdPool) \cup {UnknownId}}}

\* an update carrying neither (a channel post, an edited message)
BareUpdate == [inline_query |-> None, message |-> None]

Updates == QueryUpdates \cup MessageUpdates \cup {BareUpdate}

\* the dispatcher of main(): InlineQueryHandler(on_query) takes the inline
\* queries, MessageHandler(Filters.all, on_message) the other updates
handler_of(update) == IF update.inline_query # None THEN "on_query" ELSE "on_message"

----------------------------------------------------------------------------
(* Handlers *)

AttributeError == [type |-> "AttributeError", value |-> "'NoneType' object has no attribute 'id'"]
TelegramError == [type |-> "TelegramError", value |-> "transport failure"]

\* what a handler body did: the transport calls made, the records logged,
\* and the exception it ended with (None when it returned)
Result(c, l, e) == [calls |-> c, log |-> l, exc |-> e]

\* return_random computed on the trimmed text
return_random_trimmed(query) == strip(query) = <<>>

\* return_random = not inline_query.query
return_random(query) == query = <<>>

\* no truncation
truncate_none(stickers) == stickers

\* if len(stickers) > MAX_RESULTS: stickers = stickers[:MAX_RESULTS]
truncate(stickers) ==
    IF Len(stickers) > MAX_RESULTS THEN SubSeq(stickers, 1, MAX_RESULTS) ELSE stickers

\* cache_time left at its first value
cache_time_fixed(random) == 600

\* cache_time = 600; if return_random: cache_time = 0
cache_time(random) == IF random THEN 0 ELSE 600

\* the body of on_query; shuffled is the outcome of random.shuffle and
\* transport_ok whether bot.answer_inline_query returns
on_query_impl(update, index, shuffled, transport_ok) ==
    IF update.inline_query = None THEN Result(<<>>, <<>>, None)
    ELSE
      LET inline_query == update.inline_query[1]
          random == return_random(inline_query.query)
      IN IF inline_query.from_user = None THEN Result(<<>>, <<>>, <<AttributeError>>)
         ELSE
           LET info == [level |-> "info", event |-> "Inline query received",
                        text |-> inline_query.query]
               found == IF random THEN random_stickers(MAX_RESULTS, shuffled)
                        ELSE search_stickers(inline_query.query, index)
               stickers == truncate(found)
               results == [k \in DOMAIN stickers |->
                             [id |-> stickers[k], sticker_file_id |-> stickers[k]]]
               call == [method |-> "answer_inline_query", results |-> results,
                        cache_time |-> cache_time(random)]
           IN Result(<<call>>, <<info>>, IF transport_ok THEN None ELSE <<TelegramError>>)

\* bot.send_message(message.chat.id, template.format(**args), parse_mode='Markdown')
send_message(template, args) ==
    [method |-> "send_message", template |-> template, args |-> args,
     parse_mode |-> "Markdown"]

\* the three branches of on_message with the elif written as a second if
on_message_branches_if(sticker, index) ==
    LET is_sticker == sticker # None
        sticker_is_in_db == is_sticker /\ in_stickers(sticker[1].file_id, index)
        first == IF sticker_is_in_db THEN <<send_message("HYPE_MSG", <<>>)>> ELSE <<>>
    IN IF is_sticker
       THEN first \o <<send_message("STICKER_DATA_MSG", <<sticker[1].file_id>>)>>
       ELSE first \o <<send_message("INSTRUCTIONS_MSG", <<Len(index)>>)>>

\* the three branches of on_message without the lookup in config.STICKERS
on_message_branches_no_lookup(sticker, index) ==
    LET is_sticker == sticker # None
        sticker_is_in_db == is_sticker
    IN IF sticker_is_in_db THEN <<send_message("HYPE_MSG", <<>>)>>
       ELSE IF is_sticker
            THEN <<send_message("STICKER_DATA_MSG", <<sticker[1].file_id>>)>>
            ELSE <<send_message("INSTRUCTIONS_MSG", <<Len(index)>>)>>

\* the three branches of on_message: the send_message calls attempted
on_message_branches(sticker, index) ==
    LET is_sticker == sticker # None
        sticker_is_in_db == is_sticker /\ in_stickers(sticker[1].file_id, index)
    IN IF sticker_is_in_db THEN <<send_message("HYPE_MSG", <<>>)>>
       ELSE IF is_sticker
            THEN <<send_message("STICKER_DATA_MSG", <<sticker[1].file_id>>)>>
            ELSE <<send_message("INSTRUCTIONS_MSG", <<Len(index)>>)>>

\* the body of on_message; transport_ok is whether bot.send_message returns
on_message_impl(update, index, transport_ok) ==
    IF update.message = None THEN Result(<<>>, <<>>, None)
    ELSE
      LET message == update.message[1]
      IN IF message.from_user = None THEN Result(<<>>, <<>>, <<AttributeError>>)
         ELSE
           LET attempted == on_message_branches(message.sticker, index)
               info == [level |-> "info",
                        event |-> IF message.sticker # None THEN "Sticker received"
                                  ELSE "Text message received"]
               \* the first send_message that raises ends the body
               made == IF transport_ok THEN attempted ELSE SubSeq(attempted, 1, 1)
           IN Result(made, <<info>>, IF transport_ok THEN None ELSE <<TelegramError>>)

\* a wrapper that logs and raises again
log_exceptions_reraise(res, func) ==
    IF res.exc = None THEN [calls |-> res.calls, log |-> res.log, propagated |-> FALSE]
    ELSE [calls |-> res.calls,
          log |-> Append(res.log, [level |-> "error", event |-> "Exception caught",
                                   type |-> res.exc[1].type, value |-> res.exc[1].value,
                                   func |-> func]),
          propagated |-> TRUE]

\* log_exceptions(f): the wrapper around a handler body named func
log_exceptions(res, func) ==
    IF res.exc = None THEN [calls |-> res.calls, log |-> res.log, propagated |-> FALSE]
    ELSE [calls |-> res.calls,
          log |-> Append(res.log, [level |-> "error", event |-> "Exception caught",
                                   type |-> res.exc[1].type, value |-> res.exc[1].value,
                                   func |-> func]),
          propagated |-> FALSE]

----------------------------------------------------------------------------
(* The bot: main() has registered the handlers and the dispatcher runs *)

TokIdle == [pc |-> "off", s |-> <<>>, words |-> <<>>, again |-> <<>>]
MatIdle == [pc |-> "off", q1 |-> <<>>, q2 |-> <<>>, m1 |-> <<>>, m2 |-> <<>>]
ChkIdle == [pc |-> "off", i |-> 0, sent |-> <<>>, sticker_exceptions |-> <<>>,
            report |-> None]

Init ==
    /\ STICKERS \in Indexes
    /\ TELEGRAM_BOT_KEY = TRUE
    /\ pc = "idle"
    /\ pending = None
    /\ calls = <<>>
    /\ log = <<>>
    /\ raised = None
    /\ caught = FALSE
    /\ tok = TokIdle
    /\ mat = MatIdle
    /\ chk = ChkIdle

\* the dispatcher takes the next update and picks its handler
Deliver(update) ==
    /\ pc = "idle"
    /\ pc' = "dispatched"
    /\ pending' = <<[handler |-> handler_of(update), update |-> update]>>
    /\ UNCHANGED <<STICKERS, TELEGRAM_BOT_KEY, calls, log, raised, caught, tok, mat, chk>>

\* what the wrapped handler leaves behind
Handled(res, func) ==
    LET r == log_exceptions(res, func)
    IN /\ calls' = r.calls
       /\ log' = r.log
       /\ raised' = res.exc
       /\ caught' = (caught \/ res.exc # None)
       /\ pc' = IF r.propagated THEN "crashed" ELSE "returned"
       /\ UNCHANGED <<STICKERS, TELEGRAM_BOT_KEY, pending, tok, mat, chk>>

on_query ==
    /\ pc = "dispatched"
    /\ pending[1].handler = "on_query"
    /\ LET update == pending[1].update
           ids == keys(STICKERS)
           shuffles == IF update.inline_query # None
                          /\ return_random(update.inline_query[1].query)
                       THEN Shuffles(ids) ELSE {ids}
       IN \E shuffled \in shuffles, transport_ok \in BOOLEAN :
            Handled(on_query_impl(update, STICKERS, shuffled, transport_ok), "on_query")

on_message ==
    /\ pc = "dispatched"
    /\ pending[1].handler = "on_message"
    /\ \E transport_ok \in BOOLEAN :
         Handled(on_message_impl(pending[1].update, STICKERS, transport_ok), "on_message")

\* the handler has returned: the dispatcher waits for the next update
Return ==
    /\ pc = "returned"
    /\ pc' = "idle"
    /\ pending' = None
    /\ calls' = <<>>
    /\ log' = <<>>
    /\ raised' = None
    /\ UNCHANGED <<STICKERS, TELEGRAM_BOT_KEY, caught, tok, mat, chk>>

Next ==
    \/ \E update \in Updates : Deliver(update)
    \/ on_query
    \/ on_message
    \/ Return

Spec == Init /\ [][Next]_vars

----------------------------------------------------------------------------
(* The tokenizer alone: into_words applied to every string of Strings, and *)
(* again to the space-joined result                                        *)

InitTokenizer ==
    /\ STICKERS = <<>>
    /\ TELEGRAM_BOT_KEY = TRUE
    /\ pc = "off"
    /\ pending = None
    /\ calls = <<>>
    /\ log = <<>>
    /\ raised = None
    /\ caught = FALSE
    /\ tok \in {[pc |-> "input", s |-> s, words |-> <<>>, again |-> <<>>] : s \in Strings}
    /\ mat = MatIdle
    /\ chk = ChkIdle

Tokenize ==
    /\ tok.pc = "input"
    /\ tok' = [tok EXCEPT !.pc = "tokenized", !.words = into_words(tok.s)]
    /\ UNCHANGED <<STICKERS, TELEGRAM_BOT_KEY, pc, pending, calls, log, raised, caught, mat, chk>>

Retokenize ==
    /\ tok.pc = "tokenized"
    /\ tok' = [tok EXCEPT !.pc = "done", !.again = into_words(join(tok.words))]
    /\ UNCHANGED <<STICKERS, TELEGRAM_BOT_KEY, pc, pending, calls, log, raised, caught, mat, chk>>

NextTokenizer == Tokenize \/ Retokenize

SpecTokenizer == InitTokenizer /\ [][NextTokenizer]_vars

----------------------------------------------------------------------------
(* The matcher alone: the loop of search_stickers run with two token       *)
(* sequences over the same index                                           *)

Tokens == {<<"a">>, <<"a", "b">>, <<"b">>}

TokenSeqs == UNION {[1..n -> Tokens] : n \in 0..MaxTokens}

InitMatcher ==
    /\ STICKERS \in Indexes
    /\ TELEGRAM_BOT_KEY = TRUE
    /\ pc = "off"
    /\ pending = None
    /\ calls = <<>>
    /\ log = <<>>
    /\ raised = None
    /\ caught = FALSE
    /\ tok = TokIdle
    /\ mat \in {[pc |-> "input", q1 |-> q1, q2 |-> q2, m1 |-> <<>>, m2 |-> <<>>] :
                   q1 \in TokenSeqs, q2 \in TokenSeqs}
    /\ chk = ChkIdle

Match ==
    /\ mat.pc = "input"
    /\ mat' = [mat EXCEPT !.pc = "done",
                          !.m1 = search_from(mat.q1, STICKERS, 1),
                          !.m2 = search_from(mat.q2, STICKERS, 1)]
    /\ UNCHANGED <<STICKERS, TELEGRAM_BOT_KEY, pc, pending, calls, log, raised, caught, tok, chk>>

NextMatcher == Match

SpecMatcher == InitMatcher /\ [][NextMatcher]_vars

----------------------------------------------------------------------------
(* The check_stickers_integrity command *)

\* sticker_exceptions[file_id] = e, on a dict kept as its items in insertion order
dict_set(d, k, v) ==
    IF \E j \in DOMAIN d : d[j].key = k
    THEN [j \in DOMAIN d |-> IF d[j].key = k THEN [key |-> k, value |-> v] ELSE d[j]]
    ELSE Append(d, [key |-> k, value |-> v])

\* an iteration whose send_sticker is not inside a try: the exception leaves the loop
integrity_iteration_abort(c, file_id, ok) ==
    IF ok
    THEN [c EXCEPT !.i = c.i + 1, !.sent = Append(c.sent, [file_id |-> file_id, ok |-> ok])]
    ELSE [c EXCEPT !.pc = "raised",
                   !.sent = Append(c.sent, [file_id |-> file_id, ok |-> ok])]

\* one iteration of the for loop: send_sticker, the except branch, the sleep
integrity_iteration(c, file_id, ok) ==
    [c EXCEPT !.i = c.i + 1,
              !.sent = Append(c.sent, [file_id |-> file_id, ok |-> ok]),
              !.sticker_exceptions =
                  IF ok THEN c.sticker_exceptions
                  ELSE dict_set(c.sticker_exceptions, file_id, TelegramError)]

InitIntegrity ==
    /\ STICKERS \in Indexes
    /\ TELEGRAM_BOT_KEY \in BOOLEAN
    /\ pc = "off"
    /\ pending = None
    /\ calls = <<>>
    /\ log = <<>>
    /\ raised = None
    /\ caught = FALSE
    /\ tok = TokIdle
    /\ mat = MatIdle
    /\ chk = [ChkIdle EXCEPT !.pc = "start"]

\* if not config.TELEGRAM_BOT_KEY: raise RuntimeError(...)
CheckStart ==
    /\ chk.pc = "start"
    /\ chk' = [chk EXCEPT !.pc = IF TELEGRAM_BOT_KEY THEN "loop" ELSE "raised"]
    /\ UNCHANGED <<STICKERS, TELEGRAM_BOT_KEY, pc, pending, calls, log, raised, caught, tok, mat>>

\* for i, file_id in enumerate(config.STICKERS.keys()): ...
CheckIteration ==
    /\ chk.pc = "loop"
    /\ chk.i < Len(STICKERS)
    /\ \E ok \in BOOLEAN :
         chk' = integrity_iteration(chk, keys(STICKERS)[chk.i + 1], ok)
    /\ UNCHANGED <<STICKERS, TELEGRAM_BOT_KEY, pc, pending, calls, log, raised, caught, tok, mat>>

\* logger.info("Integrity check finished", failed=..., total=...)
CheckFinish ==
    /\ chk.pc = "loop"
    /\ chk.i = Len(STICKERS)
    /\ chk' = [chk EXCEPT !.pc = "done",
                          !.report = <<[failed |-> Len(chk.sticker_exceptions),
                                        total |-> Len(STICKERS)]>>]
    /\ UNCHANGED <<STICKERS, TELEGRAM_BOT_KEY, pc, pending, calls, log, raised, caught, tok, mat>>

NextIntegrity == CheckStart \/ CheckIteration \/ CheckFinish

\* the command is one sequential run: each send_sticker returns or raises and
\* each sleep ends, so a step that can be taken is taken
SpecIntegrity == InitIntegrity /\ [][NextIntegrity]_vars /\ WF_vars(NextIntegrity)

----------------------------------------------------------------------------
(* Properties *)

\* the handler invocation that has just returned
Returned(func) == pc = "returned" /\ pending[1].handler = func
TheUpdate == pending[1].update
TheQuery == TheUpdate.inline_query[1]
TheMessage == TheUpdate.message[1]
Answered == Returned("on_query") /\ TheUpdate.inline_query # None /\ calls # <<>>

\* the identifiers of an answer_inline_query call
Identifiers(call) == [k \in DOMAIN call.results |-> call.results[k].sticker_file_id]

ErrorRecords == SelectSeq(log, LAMBDA r : r.level = "error")

\* C1: the reply of on_message to a message is chosen by exactly this
\* classification: the hype template for a sticker whose file_id is a key of
\* the index, the unknown-sticker template with that file_id for a sticker
\* whose file_id is not, the instructions template with the number of index
\* entries for a message without sticker; exactly one of the three applies.
C1_ReplyFollowsClassification ==
    (Returned("on_message") /\ TheUpdate.message # None) =>
        LET sticker == TheMessage.sticker
            known == sticker # None /\ \E k \in DOMAIN STICKERS :
                                          STICKERS[k].file_id = sticker[1].file_id
            unknown == sticker # None /\ \A k \in DOMAIN STICKERS :
                                            STICKERS[k].file_id # sticker[1].file_id
            plain == sticker = None
        IN /\ Cardinality({c \in {"known", "unknown", "plain"} :
                              \/ c = "known" /\ known
                              \/ c = "unknown" /\ unknown
                              \/ c = "plain" /\ plain}) = 1
           /\ TheMessage.from_user # None => calls # <<>>
           /\ \A k \in DOMAIN calls :
                /\ calls[k].method = "send_message"
                /\ known => calls[k].template = "HYPE_MSG" /\ calls[k].args = <<>>
                /\ unknown => /\ calls[k].template = "STICKER_DATA_MSG"
                              /\ calls[k].args = <<sticker[1].file_id>>
                /\ plain => /\ calls[k].template = "INSTRUCTIONS_MSG"
                            /\ calls[k].args = <<Len(STICKERS)>>

\* a sticker the non-empty index does not hold was answered with its file_id
C1_Witness ==
    /\ Returned("on_message")
    /\ STICKERS # <<>>
    /\ calls = <<send_message("STICKER_DATA_MSG", <<UnknownId>>)>>

\* C2: whatever the query and the index, on_query hands answer_inline_query
\* at most MAX_RESULTS identifiers.
C2_AtMostMaxResults ==
    Returned("on_query") => \A k \in DOMAIN calls : Len(calls[k].results) <= MAX_RESULTS

\* a search that matched more entries than the cap was answered
C2_Witness ==
    /\ Answered
    /\ TheQuery.query # <<>>
    /\ Len(search_stickers(TheQuery.query, STICKERS)) > MAX_RESULTS
    /\ Len(calls[1].results) = MAX_RESULTS

\* C3: the empty query is answered with min(MAX_RESULTS, N) pairwise distinct
\* keys of the index and cache_time 0; every non-empty query with cache_time 600.
C3_EmptyQueryRandomSample ==
    Answered =>
        LET ids == Identifiers(calls[1])
            N == Len(STICKERS)
        IN IF TheQuery.query = <<>>
           THEN /\ Len(ids) = (IF N < MAX_RESULTS THEN N ELSE MAX_RESULTS)
                /\ \A a, b \in DOMAIN ids : ids[a] = ids[b] => a = b
                /\ \A a \in DOMAIN ids : \E k \in DOMAIN STICKERS : STICKERS[k].file_id = ids[a]
                /\ N <= MAX_RESULTS => {ids[a] : a \in DOMAIN ids} =
                                           {STICKERS[k].file_id : k \in DOMAIN STICKERS}
                /\ calls[1].cache_time = 0
           ELSE calls[1].cache_time = 600

\* the empty query over an index larger than the cap, answered out of index order
C3_Witness ==
    /\ Answered
    /\ TheQuery.query = <<>>
    /\ Len(STICKERS) > MAX_RESULTS
    /\ Len(calls[1].results) = MAX_RESULTS
    /\ calls[1].results[1].sticker_file_id # STICKERS[1].file_id

\* the tokens of an entry: those of each of its tags
EntryTokens(entry) == UNION {Range(into_words(entry.texts[k])) : k \in DOMAIN entry.texts}

IsPrefix(p, w) == \E n \in 0..Len(w) : p = [k \in 1..n |-> w[k]]

\* every query token is a prefix of at least one token of the entry
EntryMatches(query, entry) ==
    \A qt \in Range(into_words(query)) : \E dt \in EntryTokens(entry) : IsPrefix(qt, dt)

\* C4: a non-empty query is answered with the first MAX_RESULTS (or all, if
\* fewer), in index order, of the entries for which every query token is a
\* prefix of at least one token of the entry's tags.
C4_SearchReturnsFirstMatches ==
    (Answered /\ TheQuery.query # <<>>) =>
        LET matching == SelectSeq(STICKERS, LAMBDA e : EntryMatches(TheQuery.query, e))
            n == IF Len(matching) < MAX_RESULTS THEN Len(matching) ELSE MAX_RESULTS
        IN Identifiers(calls[1]) = [k \in 1..n |-> matching[k].file_id]

\* a query with a token, matched by some entries and not by others
C4_Witness ==
    /\ Answered
    /\ into_words(TheQuery.query) # <<>>
    /\ calls[1].results # <<>>
    /\ \E k \in DOMAIN STICKERS : ~EntryMatches(TheQuery.query, STICKERS[k])
    /\ \E k \in DOMAIN STICKERS :
         /\ EntryMatches(TheQuery.query, STICKERS[k])
         /\ into_words(TheQuery.query)[1] \notin EntryTokens(STICKERS[k])

WhitespaceOnly(query) == query # <<>> /\ \A k \in DOMAIN query : query[k] \in Whitespace

\* C5 as stated: a whitespace-only query is answered through the random
\* branch, with cache_time 0.
C5_WhitespaceQueryIsRandom ==
    (Answered /\ WhitespaceOnly(TheQuery.query)) => calls[1].cache_time = 0

\* C5 as amended: a whitespace-only query is answered through the search
\* branch: it has no tokens, so every entry matches, and the answer is the
\* first MAX_RESULTS keys in index order with cache_time 600.
C5_WhitespaceQueryIsSearch ==
    (Answered /\ WhitespaceOnly(TheQuery.query)) =>
        /\ calls[1].cache_time = 600
        /\ Identifiers(calls[1]) =
             [k \in 1..(IF Len(STICKERS) < MAX_RESULTS THEN Len(STICKERS) ELSE MAX_RESULTS) |->
                 STICKERS[k].file_id]

\* a whitespace-only query over an index larger than the cap was answered
C5_Witness ==
    /\ Answered
    /\ WhitespaceOnly(TheQuery.query)
    /\ Len(STICKERS) > MAX_RESULTS

\* what the handler of an update can leave behind, whatever came before
Outcomes(p) ==
    LET o(res) == LET r == log_exceptions(res, p.handler) IN <<r.calls, r.log>>
    IN IF p.handler = "on_query"
       THEN {o(on_query_impl(p.update, STICKERS, sh, ok)) :
                sh \in Shuffles(keys(STICKERS)), ok \in BOOLEAN}
       ELSE {o(on_message_impl(p.update, STICKERS, ok)) : ok \in BOOLEAN}

\* C6: an exception inside on_query or on_message is caught by log_exceptions:
\* the handler returns to the dispatcher (the process is never terminated),
\* exactly one error record with the exception's type, its message and the
\* handler's name is logged (none when nothing was raised), and an update
\* handled after a caught failure is handled as the handler handles it anyway.
C6_ExceptionsCaughtAndLogged ==
    /\ pc # "crashed"
    /\ pc = "returned" =>
         /\ raised = None => ErrorRecords = <<>>
         /\ raised # None =>
              ErrorRecords = <<[level |-> "error", event |-> "Exception caught",
                               type |-> raised[1].type, value |-> raised[1].value,
                               func |-> pending[1].handler]>>
         /\ caught => <<calls, log>> \in Outcomes(pending[1])

\* after a caught failure, a later update was handled and answered
C6_Witness ==
    /\ pc = "returned"
    /\ caught
    /\ raised = None
    /\ calls # <<>>

\* C7 as stated: every update delivered to on_message causes exactly one
\* send_message call.
C7_ExactlyOneSend ==
    Returned("on_message") => Len(calls) = 1

\* C7 as amended: an update delivered to on_message causes at most one
\* send_message call: exactly one when it carries a message with a sender,
\* none when it carries no message or the handler raises before the send.
C7_AtMostOneSend ==
    Returned("on_message") =>
        /\ Len(calls) <= 1
        /\ Len(calls) = 1 <=> (TheUpdate.message # None /\ TheMessage.from_user # None)

\* a known sticker was answered, the transport call having returned
C7_Witness ==
    /\ Returned("on_message")
    /\ raised = None
    /\ Len(calls) = 1
    /\ calls[1].template = "HYPE_MSG"

\* C8: if every token of q1 occurs in q2, the entries q2 matches are among
\* those q1 matches; the empty token sequence matches every entry.
C8_MatcherMonotonic ==
    mat.pc = "done" =>
        /\ Range(mat.q1) \subseteq Range(mat.q2) => Range(mat.m2) \subseteq Range(mat.m1)
        /\ mat.q1 = <<>> => mat.m1 = keys(STICKERS)

\* q2 adds a token to q1 and loses an entry q1 matches
C8_Witness ==
    /\ mat.pc = "done"
    /\ mat.q1 # <<>>
    /\ Range(mat.q1) \subseteq Range(mat.q2)
    /\ mat.m2 # <<>>
    /\ Range(mat.m2) # Range(mat.m1)

\* C9: tokenizing the space-joined tokens of s gives the tokens of s again;
\* every token is non-empty and holds no whitespace and none of , . ! ? -
\* and the empty string has no tokens.
C9_TokenizerIdempotent ==
    /\ tok.pc = "done" => tok.again = tok.words
    /\ tok.pc \in {"tokenized", "done"} =>
         /\ \A k \in DOMAIN tok.words :
              /\ tok.words[k] # <<>>
              /\ \A j \in DOMAIN tok.words[k] :
                   tok.words[k][j] \notin Whitespace \cup {",", ".", "!", "?", "-"}
         /\ tok.s = <<>> => tok.words = <<>>

\* a string with an upper-case letter and a mark, split in two tokens
C9_Witness ==
    /\ tok.pc = "done"
    /\ Len(tok.words) = 2
    /\ \E j \in DOMAIN tok.s : tok.s[j] = "-"
    /\ \E j \in DOMAIN tok.s : tok.s[j] = "B"

\* the deliveries attempted so far are the first keys of the index, in order,
\* no failure has ended the run, and the report counts the failed deliveries
IntegrityRunInOrder ==
    (TELEGRAM_BOT_KEY /\ chk.pc # "start") =>
        /\ chk.pc \in {"loop", "done"}
        /\ [k \in DOMAIN chk.sent |-> chk.sent[k].file_id] =
               [k \in 1..Len(chk.sent) |-> STICKERS[k].file_id]
        /\ Len(chk.sent) <= Len(STICKERS)
        /\ chk.pc = "done" =>
             /\ Len(chk.sent) = Len(STICKERS)
             /\ chk.report =
                  <<[failed |-> Cardinality({k \in DOMAIN chk.sent : ~chk.sent[k].ok}),
                     total |-> Len(STICKERS)]>>

\* C10: with the credential set, check_stickers_integrity attempts every key
\* of the index once, in index order, whether or not earlier deliveries
\* failed, ends after the last one, and reports the number of failed
\* deliveries and the index size.
C10_IntegrityCheckCoversIndex ==
    /\ []IntegrityRunInOrder
    /\ (TELEGRAM_BOT_KEY ~> chk.pc = "done")

\* the first delivery failed and a later one was made and succeeded
C10_Witness ==
    /\ chk.pc = "done"
    /\ Len(chk.sent) >= 2
    /\ ~chk.sent[1].ok
    /\ chk.sent[2].ok
    /\ chk.report[1].failed = 1

====
